---- MODULE Spec2Model ----
(***************************************************************************)
(* A model of the Teeny Tiny compiler (src/src): the character-level       *)
(* Lexer, the recursive-descent Parser that drives it, and the Emitter.    *)
(* Text is a sequence of one-character strings; indices are 0-based in the *)
(* code and 1-based here, so the character at position p is source[p + 1]. *)
(***************************************************************************)
EXTENDS Integers, Sequences, FiniteSets, TLC

VARIABLES source, cur_char, cur_pos,            \* Lexer
          header, code,                         \* Emitter
          cur_token, peek_token,                \* Parser lookahead
          symbols, labels_declared, labels_gotoed,
          panic,                                \* the panic that unwound the run, if any
          pc,                                   \* position of main / Parser::program
          blocks,                               \* open IF / WHILE activations of statement()
          file,                                 \* what write_file wrote, one entry per call
          runs                                  \* how the earlier runs of main on this text ended

vars == <<source, cur_char, cur_pos, header, code, cur_token, peek_token,
          symbols, labels_declared, labels_gotoed, panic, pc, blocks, file, runs>>

----------------------------------------------------------------------------
(* Characters *)

EofChar == "NUL"

Digits == {"0", "1", "2", "3", "4", "5", "6", "7", "8", "9"}

Letters == {"a", "b", "c", "d", "e", "f", "g", "h", "i", "j", "k", "l", "m",
            "n", "o", "p", "q", "r", "s", "t", "u", "v", "w", "x", "y", "z",
            "A", "B", "C", "D", "E", "F", "G", "H", "I", "J", "K", "L", "M",
            "N", "O", "P", "Q", "R", "S", "T", "U", "V", "W", "X", "Y", "Z"}

UpperCase == <<"A", "B", "C", "D", "E", "F", "G", "H", "I", "J", "K", "L", "M",
               "N", "O", "P", "Q", "R", "S", "T", "U", "V", "W", "X", "Y", "Z">>

LowerCase == <<"a", "b", "c", "d", "e", "f", "g", "h", "i", "j", "k", "l", "m",
               "n", "o", "p", "q", "r", "s", "t", "u", "v", "w", "x", "y", "z">>

\* char::to_ascii_lowercase and char::to_ascii_uppercase
ToLower(c) ==
    IF \E i \in 1..26 : UpperCase[i] = c
    THEN LowerCase[CHOOSE i \in 1..26 : UpperCase[i] = c]
    ELSE c

ToUpper(c) ==
    IF \E i \in 1..26 : LowerCase[i] = c
    THEN UpperCase[CHOOSE i \in 1..26 : LowerCase[i] = c]
    ELSE c

is_ascii_digit(c) == c \in Digits

is_alphanumeric(c) == c \in Letters \cup Digits

\* source.get(from..to): the characters at 0-based positions from .. to - 1
Slice(s, from, to) == [i \in 1..(to - from) |-> s[from + i]]

----------------------------------------------------------------------------
(* Tokens *)

TokenType == {"Unknown", "Eof", "Newline", "Number", "Ident", "String",
              "Label", "GoTo", "Print", "Input", "Let", "If", "Then", "EndIf",
              "While", "Repeat", "EndWhile",
              "Eq", "Plus", "Minus", "Asterisk", "Slash", "EqEq", "NotEq",
              "Lt", "LtEq", "Gt", "GtEq"}

Token(text, kind) == [text |-> text, kind |-> kind]

DefaultToken == Token(<<>>, "Unknown")

check_if_keyword(text) ==
    CASE text = <<"L", "A", "B", "E", "L">> -> "Label"
      [] text = <<"G", "O", "T", "O">> -> "GoTo"
      [] text = <<"P", "R", "I", "N", "T">> -> "Print"
      [] text = <<"I", "N", "P", "U", "T">> -> "Input"
      [] text = <<"L", "E", "T">> -> "Let"
      [] text = <<"I", "F">> -> "If"
      [] text = <<"T", "H", "E", "N">> -> "Then"
      [] text = <<"E", "N", "D", "I", "F">> -> "EndIf"
      [] text = <<"W", "H", "I", "L", "E">> -> "While"
      [] text = <<"R", "E", "P", "E", "A", "T">> -> "Repeat"
      [] text = <<"E", "N", "D", "W", "H", "I", "L", "E">> -> "EndWhile"
      [] OTHER -> "Unknown"

----------------------------------------------------------------------------
(* Panics.  Lexer::abort and Parser::abort panic; the run unwinds out of   *)
(* main and nothing after the panicking call executes.  A panic is kept as *)
(* its error kind and the text its message names.                          *)

NoPanic == [kind |-> "None", text |-> <<>>]

Panic(kind, text) == [kind |-> kind, text |-> text]

----------------------------------------------------------------------------
(* Lexer.  A lexer value is [source, cur_char, cur_pos].                   *)

CharAt(s, p) == IF p >= Len(s) THEN EofChar ELSE s[p + 1]

next_char(lx) ==
    [lx EXCEPT !.cur_pos = lx.cur_pos + 1,
               !.cur_char = CharAt(lx.source, lx.cur_pos + 1)]

peek(lx) == CharAt(lx.source, lx.cur_pos + 1)

\* Lexer::new keeping the source as it is given
LexerNewAsGiven(src) ==
    next_char([source |-> src, cur_char |-> " ", cur_pos |-> -1])

LexerNew(src) ==
    next_char([source |-> src \o <<"\n">>, cur_char |-> " ", cur_pos |-> -1])

RECURSIVE skip_whitespace(_)
skip_whitespace(lx) ==
    IF lx.cur_char \in {" ", "\t", "\r"}
    THEN skip_whitespace(next_char(lx))
    ELSE lx

\* The loop of skip_comment; it has no exit at end of input, so a comment
\* that no newline ends spins forever: Hang stands for that outcome.
RECURSIVE CommentLoop(_)
CommentLoop(r) ==
    IF r.lx.cur_char = "\n" THEN r
    ELSE IF r.lx.cur_pos >= Len(r.lx.source)
         THEN [r EXCEPT !.panic = Panic("Hang", <<>>)]
         ELSE CommentLoop([r EXCEPT !.lx = next_char(r.lx)])

skip_comment(lx) ==
    IF lx.cur_char = "#"
    THEN CommentLoop([lx |-> lx, panic |-> NoPanic])
    ELSE [lx |-> lx, panic |-> NoPanic]

\* The loop of the string arm: stops on the closing quote or aborts.
RECURSIVE StringLoop(_)
StringLoop(r) ==
    IF r.lx.cur_char = "\"" THEN r
    ELSE IF r.lx.cur_char \in {"\r", "\n", "\t", "\\", "%"}
         THEN [r EXCEPT !.panic = Panic("IllegalCharacter", <<r.lx.cur_char>>)]
         ELSE IF r.lx.cur_pos >= Len(r.lx.source)
              THEN [r EXCEPT !.panic = Panic("Hang", <<>>)]
              ELSE StringLoop([r EXCEPT !.lx = next_char(r.lx)])

\* while self.peek().is_ascii_digit() { self.next_char() }
RECURSIVE DigitLoop(_)
DigitLoop(lx) ==
    IF is_ascii_digit(peek(lx)) THEN DigitLoop(next_char(lx)) ELSE lx

\* while self.peek().is_alphanumeric() { self.next_char() }
RECURSIVE AlnumLoop(_)
AlnumLoop(lx) ==
    IF is_alphanumeric(peek(lx)) THEN AlnumLoop(next_char(lx)) ELSE lx

\* Results of the arms of get_token: the lexer, the token and the panic.
Lexed(lx, text, kind) ==
    [lx |-> lx, token |-> Token(text, kind), panic |-> NoPanic]

LexPanic(lx, kind, text) ==
    [lx |-> lx, token |-> DefaultToken, panic |-> Panic(kind, text)]

\* '=' / '>' / '<' : one character of lookahead for the two-character form
TwoCharArm(lx, single, double) ==
    IF peek(lx) = "="
    THEN Lexed(next_char(lx), <<lx.cur_char, "=">>, double)
    ELSE Lexed(lx, <<lx.cur_char>>, single)

BangArm(lx) ==
    IF peek(lx) = "="
    THEN Lexed(next_char(lx), <<lx.cur_char, "=">>, "LtEq")
    ELSE LexPanic(lx, "UnexpectedCharacter", <<"!", peek(lx)>>)

\* StringText keeping the two quotes in the token text
StringTextQuoted(lx, r) ==
    IF r.panic # NoPanic
    THEN LexPanic(r.lx, r.panic.kind, r.panic.text)
    ELSE Lexed(r.lx, Slice(lx.source, lx.cur_pos, r.lx.cur_pos + 1), "String")

\* token_text = source[start_pos .. cur_pos), start_pos just after the quote
StringText(lx, r) ==
    IF r.panic # NoPanic
    THEN LexPanic(r.lx, r.panic.kind, r.panic.text)
    ELSE Lexed(r.lx, Slice(lx.source, lx.cur_pos + 1, r.lx.cur_pos), "String")

StringArm(lx) == StringText(lx, StringLoop([lx |-> next_char(lx), panic |-> NoPanic]))

\* token_text = source[start_pos ..= cur_pos], start_pos where lx stands
NumberText(lx, end) ==
    Lexed(end, Slice(lx.source, lx.cur_pos, end.cur_pos + 1), "Number")

\* FractionPart without the check that a digit follows the decimal point
FractionPartUnchecked(lx, l2) == NumberText(lx, DigitLoop(l2))

\* l2 stands on the decimal point
FractionPart(lx, l2) ==
    IF ~is_ascii_digit(peek(l2))
    THEN LexPanic(l2, "IllegalCharacter", <<peek(l2)>>)
    ELSE NumberText(lx, DigitLoop(l2))

\* l1 stands on the last digit of the integer part
IntegerPart(lx, l1) ==
    IF peek(l1) = "."
    THEN FractionPart(lx, next_char(l1))
    ELSE NumberText(lx, l1)

NumberArm(lx) == IntegerPart(lx, DigitLoop(lx))

\* WordText looking the word up whatever the case of its letters
WordTextAnyCase(lx, end) ==
    LET token_text == Slice(lx.source, lx.cur_pos, end.cur_pos + 1)
        key_word == check_if_keyword([i \in 1..Len(token_text) |-> ToUpper(token_text[i])])
    IN  Lexed(end, token_text, IF key_word = "Unknown" THEN "Ident" ELSE key_word)

WordText(lx, end) ==
    LET token_text == Slice(lx.source, lx.cur_pos, end.cur_pos + 1)
        key_word == check_if_keyword(token_text)
    IN  Lexed(end, token_text, IF key_word = "Unknown" THEN "Ident" ELSE key_word)

WordArm(lx) == WordText(lx, AlnumLoop(lx))

\* The match on cur_char of get_token
Dispatch(lx) ==
    LET c == lx.cur_char
    IN  CASE c = "+" -> Lexed(lx, <<c>>, "Plus")
          [] c = "-" -> Lexed(lx, <<c>>, "Minus")
          [] c = "*" -> Lexed(lx, <<c>>, "Asterisk")
          [] c = "/" -> Lexed(lx, <<c>>, "Slash")
          [] c = "\"" -> StringArm(lx)
          [] c = "!" -> BangArm(lx)
          [] c = "=" -> TwoCharArm(lx, "Eq", "EqEq")
          [] c = ">" -> TwoCharArm(lx, "Gt", "GtEq")
          [] c = "<" -> TwoCharArm(lx, "Lt", "LtEq")
          [] c \in Digits -> NumberArm(lx)
          [] c \in Letters -> WordArm(lx)
          [] c = "\n" -> Lexed(lx, <<c>>, "Newline")
          [] c = EofChar -> Lexed(lx, <<c>>, "Eof")
          [] OTHER -> LexPanic(lx, "UnexpectedCharacter", <<c>>)

\* get_token returning its token without the next_char() that ends it
StepPastStay(d) == d

\* Lexer::get_token: [lx, token, panic]; on a panic lx is where it stopped.
\* The end of get_token: self.next_char() past the token's last character
StepPast(d) == IF d.panic # NoPanic THEN d ELSE [d EXCEPT !.lx = next_char(d.lx)]

Skipped(r) ==
    IF r.panic # NoPanic
    THEN LexPanic(r.lx, r.panic.kind, r.panic.text)
    ELSE StepPast(Dispatch(r.lx))

get_token(lx) == Skipped(skip_comment(skip_whitespace(lx)))

----------------------------------------------------------------------------
(* Emitter and Parser.  The operators below take and return the whole      *)
(* machine m: the fields of the Lexer, the Emitter and the Parser, and the *)
(* panic.  Once m has panicked every operator leaves it as it is.  The two *)
(* emission buffers are sequences of text pieces: a literal of the code is *)
(* one piece, a token's text is one piece per character.                   *)

Panicked(m) == m.panic # NoPanic

abort(m, kind, text) == IF Panicked(m) THEN m ELSE [m EXCEPT !.panic = Panic(kind, text)]

emit(m, text) == IF Panicked(m) THEN m ELSE [m EXCEPT !.code = m.code \o text]

emit_line(m, text) ==
    IF Panicked(m) THEN m ELSE [m EXCEPT !.code = m.code \o text \o <<"\n">>]

\* header_line putting the line in front of the preamble
HeaderLineInFront(m, text) ==
    IF Panicked(m) THEN m ELSE [m EXCEPT !.header = text \o <<"\n">> \o m.header]

header_line(m, text) ==
    IF Panicked(m) THEN m ELSE [m EXCEPT !.header = m.header \o text \o <<"\n">>]

\* Emitter::write_file writes format!("{}{}", header, code)
FileText(m) == m.header \o m.code

LexerOf(m) == [source |-> m.source, cur_char |-> m.cur_char, cur_pos |-> m.cur_pos]

check_token(m, kind) == m.cur_token.kind = kind

\* cur_token = peek_token; peek_token = r, what lexer.get_token() returned
Pulled(m, r) ==
    IF r.panic # NoPanic
    THEN [m EXCEPT !.cur_token = m.peek_token,
                   !.cur_char = r.lx.cur_char,
                   !.cur_pos = r.lx.cur_pos,
                   !.panic = r.panic]
    ELSE [m EXCEPT !.cur_token = m.peek_token,
                   !.cur_char = r.lx.cur_char,
                   !.cur_pos = r.lx.cur_pos,
                   !.peek_token = r.token]

next_token(m) == IF Panicked(m) THEN m ELSE Pulled(m, get_token(LexerOf(m)))

match_token(m, kind) ==
    IF Panicked(m) THEN m
    ELSE IF ~check_token(m, kind)
         THEN abort(m, "ExpectedToken", m.cur_token.text)
         ELSE next_token(m)

\* is_comparison_operator taking the assignment `=` for a comparison too
IsComparisonOrAssignment(m) ==
    \/ check_token(m, "Gt")
    \/ check_token(m, "GtEq")
    \/ check_token(m, "Lt")
    \/ check_token(m, "LtEq")
    \/ check_token(m, "EqEq")
    \/ check_token(m, "NotEq")
    \/ check_token(m, "Eq")

is_comparison_operator(m) ==
    \/ check_token(m, "Gt")
    \/ check_token(m, "GtEq")
    \/ check_token(m, "Lt")
    \/ check_token(m, "LtEq")
    \/ check_token(m, "EqEq")
    \/ check_token(m, "NotEq")

\* while self.check_token(TokenType::Newline) { self.next_token() }
RECURSIVE SkipNewlines(_)
SkipNewlines(m) ==
    IF Panicked(m) \/ ~check_token(m, "Newline") THEN m
    ELSE SkipNewlines(next_token(m))

nl(m) == SkipNewlines(match_token(m, "Newline"))

\* primary without the look-up of the identifier in the symbol table
PrimaryUnchecked(m) ==
    IF Panicked(m) THEN m
    ELSE CASE m.cur_token.kind \in {"Number", "Ident"} ->
                next_token(emit(m, m.cur_token.text))
           [] OTHER -> abort(m, "UnexpectedToken", m.cur_token.text)

primary(m) ==
    IF Panicked(m) THEN m
    ELSE CASE m.cur_token.kind = "Number" ->
                next_token(emit(m, m.cur_token.text))
           [] m.cur_token.kind = "Ident" ->
                IF m.cur_token.text \notin m.symbols
                THEN abort(m, "UndeclaredVariable", m.cur_token.text)
                ELSE next_token(emit(m, m.cur_token.text))
           [] OTHER -> abort(m, "UnexpectedToken", m.cur_token.text)

unary(m) ==
    IF Panicked(m) THEN m
    ELSE IF check_token(m, "Plus") \/ check_token(m, "Minus")
         THEN primary(next_token(emit(m, m.cur_token.text)))
         ELSE primary(m)

RECURSIVE TermLoop(_)
TermLoop(m) ==
    IF Panicked(m) THEN m
    ELSE IF check_token(m, "Asterisk") \/ check_token(m, "Slash")
         THEN TermLoop(unary(next_token(emit(m, m.cur_token.text))))
         ELSE m

term(m) == TermLoop(unary(m))

RECURSIVE ExpressionLoop(_)
ExpressionLoop(m) ==
    IF Panicked(m) THEN m
    ELSE IF check_token(m, "Plus") \/ check_token(m, "Minus")
         THEN ExpressionLoop(term(next_token(emit(m, m.cur_token.text))))
         ELSE m

expression(m) == ExpressionLoop(term(m))

RECURSIVE ComparisonLoop(_)
ComparisonLoop(m) ==
    IF Panicked(m) THEN m
    ELSE IF is_comparison_operator(m)
         THEN ComparisonLoop(expression(next_token(emit(m, m.cur_token.text))))
         ELSE m

\* comparison after its first expression
ComparisonRest(m1) ==
    IF Panicked(m1) THEN m1
    ELSE IF is_comparison_operator(m1)
         THEN ComparisonLoop(expression(next_token(emit(m1, m1.cur_token.text))))
         ELSE abort(m1, "MissingComparison", m1.cur_token.text)

comparison(m) == ComparisonRest(expression(m))

----------------------------------------------------------------------------
(* The arms of Parser::statement.  An arm is the code of the match arm     *)
(* followed by the nl() that ends statement(); the IF and WHILE arms are   *)
(* split at their body loop into the part before it and the part after it. *)

PrintRest(m1) ==
    IF Panicked(m1) THEN m1
    ELSE IF check_token(m1, "String")
         THEN nl(next_token(emit_line(m1,
                 <<"printf(\"">> \o m1.cur_token.text \o <<"\\n\");">>)))
         ELSE nl(emit_line(expression(emit(m1, <<"printf(\"%.2f\\n\", (float)(">>)),
                           <<"));">>))

PrintArm(m) == PrintRest(next_token(m))

IfArmOpen(m) ==
    emit_line(nl(match_token(comparison(emit(next_token(m), <<"if(">>)), "Then")),
              <<"){">>)

\* The end of the IF arm leaving the ENDIF token where it is
IfArmCloseUnmatched(m) == emit_line(m, <<"}">>)

IfArmClose(m) == nl(emit_line(match_token(m, "EndIf"), <<"}">>))

WhileArmOpen(m) ==
    emit_line(nl(match_token(comparison(emit(next_token(m), <<"while(">>)), "Repeat")),
              <<"){">>)

\* The end of the WHILE arm emitting no closing brace
WhileArmCloseNoBrace(m) == nl(match_token(m, "EndWhile"))

WhileArmClose(m) == nl(emit_line(match_token(m, "EndWhile"), <<"}">>))

\* The LABEL arm without the check for a label that exists already
LabelRestUnchecked(m1) ==
    IF Panicked(m1) THEN m1
    ELSE nl(match_token(
             emit_line([m1 EXCEPT !.labels_declared = @ \cup {m1.cur_token.text}],
                       m1.cur_token.text \o <<":">>),
             "Ident"))

LabelRest(m1) ==
    IF Panicked(m1) THEN m1
    ELSE IF m1.cur_token.text \in m1.labels_declared
         THEN abort(m1, "DuplicateLabel", m1.cur_token.text)
         ELSE nl(match_token(
                  emit_line([m1 EXCEPT !.labels_declared = @ \cup {m1.cur_token.text}],
                            m1.cur_token.text \o <<":">>),
                  "Ident"))

LabelArm(m) == LabelRest(next_token(m))

\* The GOTO arm checking at once that its label is declared
GoToRestEager(m1) ==
    IF Panicked(m1) THEN m1
    ELSE IF m1.cur_token.text \notin m1.labels_declared
         THEN abort(m1, "UndeclaredLabel", m1.cur_token.text)
         ELSE nl(match_token(
                  emit_line([m1 EXCEPT !.labels_gotoed = @ \cup {m1.cur_token.text}],
                            <<"goto ">> \o m1.cur_token.text \o <<";">>),
                  "Ident"))

GoToRest(m1) ==
    IF Panicked(m1) THEN m1
    ELSE nl(match_token(
             emit_line([m1 EXCEPT !.labels_gotoed = @ \cup {m1.cur_token.text}],
                       <<"goto ">> \o m1.cur_token.text \o <<";">>),
             "Ident"))

GoToArm(m) == GoToRest(next_token(m))

\* Declare emitting the declaration also for a name already in symbols
DeclareAgain(m) ==
    IF Panicked(m) THEN m
    ELSE header_line([m EXCEPT !.symbols = @ \cup {m.cur_token.text}],
                     <<"float ">> \o m.cur_token.text \o <<";">>)

\* if !symbols.contains(text) { symbols.insert(text); header_line("float text;") }
Declare(m) ==
    IF Panicked(m) \/ m.cur_token.text \in m.symbols THEN m
    ELSE header_line([m EXCEPT !.symbols = @ \cup {m.cur_token.text}],
                     <<"float ">> \o m.cur_token.text \o <<";">>)

LetRest(m1) ==
    IF Panicked(m1) THEN m1
    ELSE nl(emit_line(expression(match_token(match_token(
                emit(m1, m1.cur_token.text \o <<" = ">>), "Ident"), "Eq")),
            <<";">>))

LetArm(m) == LetRest(Declare(next_token(m)))

\* The INPUT arm taking its variable for a declared label as well
InputRestAsLabel(m1) ==
    IF Panicked(m1) THEN m1
    ELSE LET t == m1.cur_token.text
             m2 == emit_line([m1 EXCEPT !.labels_declared = @ \cup {t}],
                             <<"if(0 == scanf(\"%f\", &">> \o t \o <<")) {">>)
             m3 == emit_line(m2, t \o <<" = 0;">>)
             m4 == emit_line(emit(m3, <<"scanf(\"%">>), <<"*s\");">>)
             m5 == emit_line(m4, <<"}">>)
         IN  nl(match_token(m5, "Ident"))

InputRest(m1) ==
    IF Panicked(m1) THEN m1
    ELSE LET t == m1.cur_token.text
             m2 == emit_line(m1, <<"if(0 == scanf(\"%f\", &">> \o t \o <<")) {">>)
             m3 == emit_line(m2, t \o <<" = 0;">>)
             m4 == emit_line(emit(m3, <<"scanf(\"%">>), <<"*s\");">>)
             m5 == emit_line(m4, <<"}">>)
         IN  nl(match_token(m5, "Ident"))

InputArm(m) == InputRest(Declare(next_token(m)))

InvalidArm(m) == abort(m, "InvalidStatement", m.cur_token.text)

\* Parser::new: two calls of next_token fill the lookahead
ParserNew(m) == next_token(next_token(m))

\* Parser::program up to its statement loop
ProgramOpen(m) ==
    SkipNewlines(header_line(header_line(m, <<"#include <stdio.h>">>),
                             <<"int main(void){">>))

\* Parser::program after its statement loop, up to the label check
ProgramClose(m) == emit_line(emit_line(m, <<"return 0;">>), <<"}">>)

\* The closing check taking a declared variable for a declared label
UndeclaredNames(m) == m.labels_gotoed \ (m.labels_declared \cup m.symbols)

\* The labels the closing check of Parser::program aborts on
UndeclaredLabels(m) == m.labels_gotoed \ m.labels_declared

----------------------------------------------------------------------------
(* Source texts the compiler is run on *)

MaxLines == 3
MaxOps == 2
MaxSrcLen == 4
MaxBlockLines == 4

Sp == <<" ">>
Nl == <<"\n">>
KwLabel == <<"L", "A", "B", "E", "L">>
KwGoTo == <<"G", "O", "T", "O">>
KwPrint == <<"P", "R", "I", "N", "T">>
KwInput == <<"I", "N", "P", "U", "T">>
KwLet == <<"L", "E", "T">>
KwIf == <<"I", "F">>
KwThen == <<"T", "H", "E", "N">>
KwEndIf == <<"E", "N", "D", "I", "F">>
KwWhile == <<"W", "H", "I", "L", "E">>
KwRepeat == <<"R", "E", "P", "E", "A", "T">>
KwEndWhile == <<"E", "N", "D", "W", "H", "I", "L", "E">>

Names == {<<"a">>, <<"b">>}

\* One line, without its newline: a statement, one line of a block
\* statement, a comment, or a PRINT whose number is malformed
StmtLines ==
    {KwLet \o Sp \o <<"a">> \o <<" ", "=", " ">> \o e : e \in {<<"1">>, <<"a">>, <<"b">>}}
    \cup {KwPrint \o Sp \o e : e \in {<<"a">>, <<"\"", "s", "\"">>, <<"1", ".">>}}
    \cup {<<"#", "c">>}
    \cup {KwInput \o Sp \o <<"b">>}
    \cup {KwGoTo \o Sp \o n : n \in Names}
    \cup {KwLabel \o Sp \o n : n \in Names}
    \cup {KwIf \o Sp \o <<"a", "<", "1">> \o Sp \o KwThen, KwEndIf,
          KwWhile \o Sp \o <<"1", "=", "=", "1">> \o Sp \o KwRepeat, KwEndWhile}

\* The texts of at most n lines of StmtLines, a newline after each
RECURSIVE LinePrograms(_)
LinePrograms(n) ==
    IF n = 0 THEN {<<>>}
    ELSE LET P == LinePrograms(n - 1)
         IN  P \cup {q \o l \o Nl : q \in P, l \in StmtLines}

\* The operators a condition is built with: the six comparisons, the
\* assignment, and two of the expression grammar
CondOps == {<<"=", "=">>, <<"!", "=">>, <<"<">>, <<"<", "=">>, <<">">>, <<">", "=">>,
            <<"=">>, <<"+">>, <<"*">>}

CondOperands == {<<"a">>, <<"1">>}

\* operand (operator operand)^k for k <= n
RECURSIVE Conditions(_)
Conditions(n) ==
    IF n = 0 THEN CondOperands
    ELSE LET C == Conditions(n - 1)
         IN  C \cup {c \o Sp \o o \o Sp \o x : c \in C, o \in CondOps, x \in CondOperands}

\* LET a = 1, then one IF or WHILE block with the condition c and no body
CondProgram(c, while) ==
    KwLet \o Sp \o <<"a", "=", "1">> \o Nl
    \o (IF while THEN KwWhile ELSE KwIf) \o Sp \o c \o Sp
    \o (IF while THEN KwRepeat ELSE KwThen) \o Nl
    \o (IF while THEN KwEndWhile ELSE KwEndIf)

CondPrograms == {CondProgram(c, w) : c \in Conditions(MaxOps), w \in BOOLEAN}

\* The texts of at most MaxLines lines, each also without its last newline
LineTexts ==
    LET P == LinePrograms(MaxLines)
    IN  P \cup {SubSeq(q, 1, Len(q) - 1) : q \in P \ {<<>>}}

\* The lines that open and close a block, the conditions made of numbers
BlockLines ==
    {KwIf \o Sp \o <<"1", "<", "1">> \o Sp \o KwThen, KwEndIf,
     KwWhile \o Sp \o <<"1", "=", "=", "1">> \o Sp \o KwRepeat, KwEndWhile}

\* The texts of at most n lines of BlockLines, a newline after each
RECURSIVE BlockPrograms(_)
BlockPrograms(n) ==
    IF n = 0 THEN {<<>>}
    ELSE LET P == BlockPrograms(n - 1)
         IN  P \cup {q \o l \o Nl : q \in P, l \in BlockLines}

Programs == LineTexts \cup CondPrograms \cup BlockPrograms(MaxBlockLines)

\* The lines of the programs that are compiled twice: the statements that
\* fill the symbol table and the label sets, one that reads a variable, and
\* the lines of the two block statements
TwiceLines ==
    {KwLet \o Sp \o <<"a">> \o <<" ", "=", " ", "1">>, KwInput \o Sp \o <<"b">>,
     KwPrint \o Sp \o <<"a">>}
    \cup {KwGoTo \o Sp \o n : n \in Names}
    \cup {KwLabel \o Sp \o n : n \in Names}
    \cup {KwIf \o Sp \o <<"a", "<", "1">> \o Sp \o KwThen, KwEndIf,
          KwWhile \o Sp \o <<"1", "=", "=", "1">> \o Sp \o KwRepeat, KwEndWhile}

\* The texts of at most n lines of TwiceLines, a newline after each
RECURSIVE TwicePrograms(_)
TwicePrograms(n) ==
    IF n = 0 THEN {<<>>}
    ELSE LET P == TwicePrograms(n - 1)
         IN  P \cup {q \o l \o Nl : q \in P, l \in TwiceLines}

\* The lines of the programs that are compiled with and without one more
\* newline at their end: one line for each statement, a comment, a number
\* and a string literal that are cut short
NewlineLines ==
    {KwLet \o Sp \o <<"a">> \o <<" ", "=", " ", "1">>, KwInput \o Sp \o <<"b">>,
     KwPrint \o Sp \o <<"\"", "s", "\"">>, KwPrint \o Sp \o <<"\"", "s">>,
     KwPrint \o Sp \o <<"1", ".">>, <<"#", "c">>,
     KwGoTo \o Sp \o <<"a">>, KwLabel \o Sp \o <<"a">>,
     KwIf \o Sp \o <<"a", "<", "1">> \o Sp \o KwThen, KwEndIf,
     KwWhile \o Sp \o <<"1", "=", "=", "1">> \o Sp \o KwRepeat, KwEndWhile}

\* The texts of at most n lines of NewlineLines, a newline between them
RECURSIVE NewlinePrograms(_)
NewlinePrograms(n) ==
    IF n = 0 THEN {<<>>}
    ELSE LET P == NewlinePrograms(n - 1)
         IN  P \cup {IF q = <<>> THEN l ELSE q \o Nl \o l : q \in P, l \in NewlineLines}

\* Those texts, and each of them with a newline at its end
NewlineTexts ==
    LET P == NewlinePrograms(MaxLines)
    IN  P \cup {q \o Nl : q \in P}

\* Every text of at most n characters of the alphabet A
RECURSIVE Texts(_, _)
Texts(A, n) ==
    IF n = 0 THEN {<<>>}
    ELSE LET T == Texts(A, n - 1)
         IN  T \cup {Append(t, c) : t \in T, c \in A}

LexAlphabet == {"!", "=", "<", "1", "2", ".", "a", " ", "\n", "+"}

LexSources == Texts(LexAlphabet, MaxSrcLen)

\* The reserved words, and texts that are nearly one: each prefix of a
\* reserved word, a reserved word with one more character, with its first
\* letter only or with no letter in upper case
ReservedWords == {KwLabel, KwGoTo, KwPrint, KwInput, KwLet, KwIf, KwThen, KwEndIf,
                  KwWhile, KwRepeat, KwEndWhile}

WordTails == {"X", "S", "1", "e"}

Words ==
    UNION {{SubSeq(k, 1, i) : i \in 1..Len(k)}
           \cup {Append(k, c) : c \in WordTails}
           \cup {[i \in 1..Len(k) |-> ToLower(k[i])]}
           \cup {[i \in 1..Len(k) |-> IF i = 1 THEN k[i] ELSE ToLower(k[i])]}
           : k \in ReservedWords}

\* What follows the word in the text
WordEnds == {<<>>, <<" ">>, <<"\n">>, <<"=", "1">>, <<" ", "a">>, <<"+">>}

WordSources == {w \o e : w \in Words, e \in WordEnds}

\* The characters of string literals, comments and blanks
StrAlphabet == {"\"", "a", "1", "%", "\\", "\t", "\r", "\n", " ", "#"}

StrSources == Texts(StrAlphabet, MaxSrcLen)

----------------------------------------------------------------------------
(* The state machine: main (src/src/main.rs) running Parser::program.      *)
(* The recursion of statement() into the bodies of IF and WHILE is the     *)
(* stack blocks; one action is one arm of statement(), or one part of      *)
(* program() or main().                                                    *)

Self ==
    [source |-> source, cur_char |-> cur_char, cur_pos |-> cur_pos,
     header |-> header, code |-> code,
     cur_token |-> cur_token, peek_token |-> peek_token,
     symbols |-> symbols, labels_declared |-> labels_declared,
     labels_gotoed |-> labels_gotoed, panic |-> panic]

Becomes(m) ==
    /\ source' = m.source
    /\ cur_char' = m.cur_char
    /\ cur_pos' = m.cur_pos
    /\ header' = m.header
    /\ code' = m.code
    /\ cur_token' = m.cur_token
    /\ peek_token' = m.peek_token
    /\ symbols' = m.symbols
    /\ labels_declared' = m.labels_declared
    /\ labels_gotoed' = m.labels_gotoed
    /\ panic' = m.panic

\* main: Lexer::new(contents), Emitter::new(..); Parser::new has not run yet
InitOn(src) ==
    LET lx == LexerNew(src)
    IN  /\ source = lx.source
        /\ cur_char = lx.cur_char
        /\ cur_pos = lx.cur_pos
        /\ header = <<>>
        /\ code = <<>>
        /\ cur_token = DefaultToken
        /\ peek_token = DefaultToken
        /\ symbols = {}
        /\ labels_declared = {}
        /\ labels_gotoed = {}
        /\ panic = NoPanic
        /\ pc = "main"
        /\ blocks = <<>>
        /\ file = <<>>
        /\ runs = <<>>

Init == \E src \in Programs : InitOn(src)

Running == panic = NoPanic

Top == blocks[Len(blocks)]

Pop == SubSeq(blocks, 1, Len(blocks) - 1)

\* The condition of the statement loop that is executing: of program() when
\* no block is open, else of the innermost IF or WHILE arm
LoopTest ==
    IF blocks = <<>> THEN ~check_token(Self, "Eof")
    ELSE IF Top = "If" THEN ~check_token(Self, "EndIf")
         ELSE ~check_token(Self, "EndWhile")

InStatement(kind) ==
    /\ pc = "statements"
    /\ Running
    /\ LoopTest
    /\ cur_token.kind = kind

MainParserNew ==
    /\ pc = "main"
    /\ Running
    /\ LET m == ParserNew(Self)
       IN  /\ Becomes(m)
           /\ pc' = IF Panicked(m) THEN pc ELSE "program"
    /\ UNCHANGED <<blocks, file, runs>>

ProgramBegin ==
    /\ pc = "program"
    /\ Running
    /\ LET m == ProgramOpen(Self)
       IN  /\ Becomes(m)
           /\ pc' = IF Panicked(m) THEN pc ELSE "statements"
    /\ UNCHANGED <<blocks, file, runs>>

StmtPrint ==
    /\ InStatement("Print")
    /\ Becomes(PrintArm(Self))
    /\ UNCHANGED <<pc, blocks, file, runs>>

StmtIf ==
    /\ InStatement("If")
    /\ LET m == IfArmOpen(Self)
       IN  /\ Becomes(m)
           /\ blocks' = IF Panicked(m) THEN blocks ELSE Append(blocks, "If")
    /\ UNCHANGED <<pc, file, runs>>

StmtIfEnd ==
    /\ pc = "statements"
    /\ Running
    /\ blocks # <<>>
    /\ Top = "If"
    /\ check_token(Self, "EndIf")
    /\ LET m == IfArmClose(Self)
       IN  /\ Becomes(m)
           /\ blocks' = IF Panicked(m) THEN blocks ELSE Pop
    /\ UNCHANGED <<pc, file, runs>>

StmtWhile ==
    /\ InStatement("While")
    /\ LET m == WhileArmOpen(Self)
       IN  /\ Becomes(m)
           /\ blocks' = IF Panicked(m) THEN blocks ELSE Append(blocks, "While")
    /\ UNCHANGED <<pc, file, runs>>

StmtWhileEnd ==
    /\ pc = "statements"
    /\ Running
    /\ blocks # <<>>
    /\ Top = "While"
    /\ check_token(Self, "EndWhile")
    /\ LET m == WhileArmClose(Self)
       IN  /\ Becomes(m)
           /\ blocks' = IF Panicked(m) THEN blocks ELSE Pop
    /\ UNCHANGED <<pc, file, runs>>

StmtLabel ==
    /\ InStatement("Label")
    /\ Becomes(LabelArm(Self))
    /\ UNCHANGED <<pc, blocks, file, runs>>

StmtGoTo ==
    /\ InStatement("GoTo")
    /\ Becomes(GoToArm(Self))
    /\ UNCHANGED <<pc, blocks, file, runs>>

StmtLet ==
    /\ InStatement("Let")
    /\ Becomes(LetArm(Self))
    /\ UNCHANGED <<pc, blocks, file, runs>>

StmtInput ==
    /\ InStatement("Input")
    /\ Becomes(InputArm(Self))
    /\ UNCHANGED <<pc, blocks, file, runs>>

StatementKeywords == {"Print", "If", "While", "Label", "GoTo", "Let", "Input"}

StmtInvalid ==
    /\ pc = "statements"
    /\ Running
    /\ LoopTest
    /\ cur_token.kind \notin StatementKeywords
    /\ Becomes(InvalidArm(Self))
    /\ UNCHANGED <<pc, blocks, file, runs>>

AtProgramEnd ==
    /\ pc = "statements"
    /\ Running
    /\ blocks = <<>>
    /\ check_token(Self, "Eof")

\* program() returning when the first label that the iteration of
\* labels_gotoed yields is declared, the others not looked at
ProgramReturnsOnFirst ==
    /\ AtProgramEnd
    /\ LET m == ProgramClose(Self)
       IN  /\ m.labels_gotoed = {} \/ m.labels_gotoed \cap m.labels_declared # {}
           /\ Becomes(m)
    /\ pc' = "parsed"
    /\ UNCHANGED <<blocks, file, runs>>

\* program() returns: every label of a GOTO is declared
ProgramReturns ==
    /\ AtProgramEnd
    /\ LET m == ProgramClose(Self)
       IN  /\ UndeclaredLabels(m) = {}
           /\ Becomes(m)
    /\ pc' = "parsed"
    /\ UNCHANGED <<blocks, file, runs>>

\* program() aborts on the first undeclared label the iteration of the
\* HashSet labels_gotoed yields; its order is unspecified
ProgramLabelAbort ==
    /\ AtProgramEnd
    /\ LET m == ProgramClose(Self)
       IN  \E label \in UndeclaredLabels(m) :
               Becomes(abort(m, "UndeclaredLabel", label))
    /\ UNCHANGED <<pc, blocks, file, runs>>

\* write_file run also when program() has panicked
WriteFileAlways ==
    /\ pc = "parsed" \/ (pc = "statements" /\ ~Running)
    /\ file' = Append(file, FileText(Self))
    /\ pc' = "done"
    /\ UNCHANGED <<source, cur_char, cur_pos, header, code, cur_token, peek_token,
                   symbols, labels_declared, labels_gotoed, panic, blocks, runs>>

\* main: emitter.write_file()
WriteFile ==
    /\ pc = "parsed"
    /\ Running
    /\ file' = Append(file, FileText(Self))
    /\ pc' = "done"
    /\ UNCHANGED <<source, cur_char, cur_pos, header, code, cur_token, peek_token,
                   symbols, labels_declared, labels_gotoed, panic, blocks, runs>>

Next ==
    \/ MainParserNew
    \/ ProgramBegin
    \/ StmtPrint
    \/ StmtIf
    \/ StmtIfEnd
    \/ StmtWhile
    \/ StmtWhileEnd
    \/ StmtLabel
    \/ StmtGoTo
    \/ StmtLet
    \/ StmtInput
    \/ StmtInvalid
    \/ ProgramReturns
    \/ ProgramLabelAbort
    \/ WriteFile

Spec == Init /\ [][Next]_vars

----------------------------------------------------------------------------
(* main run twice on the same text: when a run has ended, by the file      *)
(* write or by a panic, how it ended is kept in runs and main starts again *)
(* on the text it was given, with a new Lexer, Emitter and Parser.         *)

InitTwice == \E src \in TwicePrograms(MaxLines) : InitOn(src)

\* The run has ended
Ended == pc = "done" \/ ~Running

MainAgain ==
    /\ Ended
    /\ runs = <<>>
    /\ runs' = <<[panic |-> panic, file |-> file]>>
    /\ LET lx == LexerNew(SubSeq(source, 1, Len(source) - 1))
       IN  /\ source' = lx.source
           /\ cur_char' = lx.cur_char
           /\ cur_pos' = lx.cur_pos
    /\ header' = <<>>
    /\ code' = <<>>
    /\ cur_token' = DefaultToken
    /\ peek_token' = DefaultToken
    /\ symbols' = {}
    /\ labels_declared' = {}
    /\ labels_gotoed' = {}
    /\ panic' = NoPanic
    /\ pc' = "main"
    /\ blocks' = <<>>
    /\ file' = <<>>

NextTwice == Next \/ MainAgain

SpecTwice == InitTwice /\ [][NextTwice]_vars

----------------------------------------------------------------------------
(* main run on a text and then on the same text with one more newline at   *)
(* its end.                                                                *)

InitNewline == \E src \in NewlineTexts : InitOn(src)

\* The text that Lexer::new was given: source without the newline appended
GivenText == SubSeq(source, 1, Len(source) - 1)

MainWithNewline ==
    /\ Ended
    /\ runs = <<>>
    /\ runs' = <<[panic |-> panic, file |-> file]>>
    /\ LET lx == LexerNew(GivenText \o Nl)
       IN  /\ source' = lx.source
           /\ cur_char' = lx.cur_char
           /\ cur_pos' = lx.cur_pos
    /\ header' = <<>>
    /\ code' = <<>>
    /\ cur_token' = DefaultToken
    /\ peek_token' = DefaultToken
    /\ symbols' = {}
    /\ labels_declared' = {}
    /\ labels_gotoed' = {}
    /\ panic' = NoPanic
    /\ pc' = "main"
    /\ blocks' = <<>>
    /\ file' = <<>>

NextNewline == Next \/ MainWithNewline

SpecNewline == InitNewline /\ [][NextNewline]_vars

----------------------------------------------------------------------------
(* The tokenizer alone: Parser::next_token called until the token it has   *)
(* pulled is Eof, on every short text over LexAlphabet.                    *)

InitLex == \E src \in LexSources : InitOn(src)

LexStep ==
    /\ pc = "main"
    /\ Running
    /\ peek_token.kind # "Eof"
    /\ Becomes(next_token(Self))
    /\ UNCHANGED <<pc, blocks, file, runs>>

NextLex == LexStep

SpecLex == InitLex /\ [][NextLex]_vars

\* The same on the texts that start with a word
InitWords == \E src \in WordSources : InitOn(src)

SpecWords == InitWords /\ [][NextLex]_vars

\* The same on every short text over StrAlphabet
InitStr == \E src \in StrSources : InitOn(src)

SpecStr == InitStr /\ [][NextLex]_vars

----------------------------------------------------------------------------
(* Properties of the tokenizer, checked under SpecLex: every step is one   *)
(* call of next_token, the lexer standing where the next token starts.     *)

\* The length of the run of digits of s that starts at the 0-based position p
RECURSIVE DigitRun(_, _)
DigitRun(s, p) ==
    IF CharAt(s, p) \in Digits THEN 1 + DigitRun(s, p + 1) ELSE 0

\* The position of the first character of s at or after p that is no blank
RECURSIVE PastBlanks(_, _)
PastBlanks(s, p) ==
    IF CharAt(s, p) \in {" ", "\t", "\r"} THEN PastBlanks(s, p + 1) ELSE p

\* The position of the first newline of s at or after p
RECURSIVE LineEnd(_, _)
LineEnd(s, p) ==
    IF p >= Len(s) \/ CharAt(s, p) = "\n" THEN p ELSE LineEnd(s, p + 1)

\* p, or the end of the line when a comment starts at p
PastComment(s, p) == IF CharAt(s, p) = "#" THEN LineEnd(s, p) ELSE p

\* Where the token that the next step pulls starts
TokenStart == PastComment(source, PastBlanks(source, cur_pos))

\* What C1 says of a step whose token starts with `!`
BangStep ==
    CharAt(source, TokenStart) = "!" =>
        IF CharAt(source, TokenStart + 1) = "="
        THEN /\ panic' = NoPanic
             /\ peek_token' = Token(<<"!", "=">>, "NotEq")
             /\ cur_pos' = TokenStart + 2
        ELSE /\ panic'.kind = "UnexpectedCharacter"
             /\ peek_token' = peek_token

\* C1: tokenizing `!=` yields one token of kind NotEq (not LtEq) with the
\* text `!=`; a `!` followed by anything else fails with UnexpectedCharacter
\* and no token is pulled.
C1_BangIsNotEqual == [][BangStep]_vars

\* What C10 says of a step whose token starts with a digit
NumberStep ==
    CharAt(source, TokenStart) \in Digits =>
        LET n == DigitRun(source, TokenStart)
            point == CharAt(source, TokenStart + n) = "."
            f == DigitRun(source, TokenStart + n + 1)
            len == IF point THEN n + 1 + f ELSE n
        IN  IF point /\ f = 0
            THEN /\ panic'.kind = "IllegalCharacter"
                 /\ peek_token' = peek_token
            ELSE /\ panic' = NoPanic
                 /\ peek_token' = Token(Slice(source, TokenStart, TokenStart + len),
                                        "Number")
                 /\ cur_pos' = TokenStart + len

\* C10: a token that starts with a digit is the maximal run of digits, then,
\* if a decimal point follows, the point and a further maximal run of digits
\* that is not empty; its kind is Number and its text exactly those
\* characters; a decimal point that no digit follows fails with
\* IllegalCharacter.
C10_NumberToken == [][NumberStep]_vars

\* A number with a fraction has been pulled, its integer part two digits long
C10_Witness ==
    /\ panic = NoPanic
    /\ peek_token.kind = "Number"
    /\ Len(peek_token.text) = 4
    /\ peek_token.text[3] = "."

\* The characters that may not occur in a string literal
IllegalInString == {"\r", "\n", "\t", "\\", "%"}

\* The position of the first character of s at or after p that closes a
\* string literal or is illegal in one
RECURSIVE StringStop(_, _)
StringStop(s, p) ==
    IF p >= Len(s) \/ CharAt(s, p) \in IllegalInString \cup {"\""} THEN p
    ELSE StringStop(s, p + 1)

\* What C11 says of the step whose token starts with a quote, q being where
\* the literal stops
StringStepTo(q) ==
    IF CharAt(source, q) = "\""
    THEN /\ panic' = NoPanic
         /\ peek_token' = Token(Slice(source, TokenStart + 1, q), "String")
         /\ cur_pos' = q + 1
    ELSE /\ CharAt(source, q) \in IllegalInString
         /\ panic' = Panic("IllegalCharacter", <<CharAt(source, q)>>)
         /\ peek_token' = peek_token

StringStep ==
    CharAt(source, TokenStart) = "\"" => StringStepTo(StringStop(source, TokenStart + 1))

\* C11: a quote begins a string literal that extends to the next quote; the
\* String token's text is the characters strictly between the two quotes;
\* a carriage return, newline, tab, backslash or percent sign before the
\* closing quote fails with IllegalCharacter and no token is pulled, so a
\* literal that is not closed on its line always fails.
C11_StringToken == [][StringStep]_vars

\* A literal was pulled whose text keeps its blank and leaves out the quotes
C11_Witness ==
    /\ panic = NoPanic
    /\ peek_token = Token(<<"a", " ">>, "String")

\* The characters of the source that the token t ending just before the
\* position end was made of: a String token leaves out its two quotes
Lexeme(t, end) ==
    IF t.kind = "String"
    THEN Slice(source, end - Len(t.text) - 1, end - 1)
    ELSE Slice(source, end - Len(t.text), end)

\* No call is left to make: Eof was yielded, or a call failed
LexDone == peek_token.kind = "Eof" \/ panic # NoPanic

\* What C12 says of a call of next_token: it is made before Eof was yielded
\* or a call failed, and if it does not fail it returns one token, made of
\* characters between the old and the new read position
TokenStep ==
    /\ ~LexDone
    /\ cur_pos <= Len(source)
    /\ panic' = NoPanic =>
          /\ cur_pos' > cur_pos
          /\ cur_token' = peek_token
          /\ peek_token'.kind \in TokenType \ {"Unknown"}
          /\ IF peek_token'.kind = "Eof"
             THEN TokenStart = Len(source) /\ cur_pos' = Len(source) + 1
             ELSE /\ cur_pos' <= Len(source)
                  /\ cur_pos' - Len(peek_token'.text) >= TokenStart
                  /\ Lexeme(peek_token', cur_pos') = peek_token'.text

\* C12: next_token is callable until it yields Eof; a call that does not
\* fail returns one token and moves the read position strictly forward, the
\* token being made of the characters it moved over, so the tokens come in
\* source order; the position never passes the end of the source before
\* Eof is yielded there, so Eof is yielded after at most Len(source) + 1
\* calls.
C12_TokensUntilEof == [][TokenStep]_vars

\* Eof was yielded after the tokens of a text of three characters or more
C12_Witness ==
    /\ peek_token.kind = "Eof"
    /\ cur_token.kind = "Newline"
    /\ Len(source) >= 4
    /\ cur_pos = Len(source) + 1

\* The length of the run of letters and digits of s that starts at p
RECURSIVE WordRun(_, _)
WordRun(s, p) ==
    IF CharAt(s, p) \in Letters \cup Digits THEN 1 + WordRun(s, p + 1) ELSE 0

\* The kind of each reserved word
ReservedKind ==
    [w \in ReservedWords |->
        CASE w = KwLabel -> "Label" [] w = KwGoTo -> "GoTo" [] w = KwPrint -> "Print"
          [] w = KwInput -> "Input" [] w = KwLet -> "Let" [] w = KwIf -> "If"
          [] w = KwThen -> "Then" [] w = KwEndIf -> "EndIf" [] w = KwWhile -> "While"
          [] w = KwRepeat -> "Repeat" [] w = KwEndWhile -> "EndWhile"]

\* What C13 says of the step whose token is the word w
WordStepOn(w) ==
    /\ panic' = NoPanic
    /\ peek_token'.text = w
    /\ peek_token'.kind = IF w \in ReservedWords THEN ReservedKind[w] ELSE "Ident"
    /\ cur_pos' = TokenStart + Len(w)

WordStep ==
    /\ CharAt(source, TokenStart) \in Letters =>
          WordStepOn(Slice(source, TokenStart, TokenStart + WordRun(source, TokenStart)))
    /\ peek_token'.kind = "Unknown" => peek_token' = peek_token

\* C13: a token that starts with a letter is the maximal run of letters and
\* digits; its kind is that of the reserved word its whole text spells,
\* case-sensitively, and Ident otherwise, so a lower-case spelling, a
\* proper prefix and an extension of a reserved word are Ident; no call
\* pulls a token of kind Unknown.
C13_WordKind == [][WordStep]_vars

\* An extension of a reserved word was pulled as an identifier
C13_Witness ==
    /\ panic = NoPanic
    /\ peek_token = Token(Append(KwPrint, "X"), "Ident")

----------------------------------------------------------------------------
(* Properties of the parser, checked under Spec.  A statement step starts  *)
(* with the statement's keyword in cur_token, its next token in peek_token *)
(* and the lexer standing just past that token.                            *)

\* A step of the statement loops is about to run Parser::statement
AtStatement == pc = "statements" /\ Running /\ LoopTest

\* What get_token returns next: the token after peek_token
Ahead == get_token(LexerOf(Self))

\* The tokens from lx up to the end of the line (its Newline left out), as
\* far as they can be lexed
RECURSIVE RestOfLine(_, _)
RestOfLineFrom(r, acc) ==
    IF r.panic # NoPanic \/ r.token.kind \in {"Newline", "Eof"} THEN acc
    ELSE RestOfLine(r.lx, Append(acc, r.token))
RestOfLine(lx, acc) == RestOfLineFrom(get_token(lx), acc)

\* The tokens of the statement after its keyword
Line ==
    IF peek_token.kind \in {"Newline", "Eof"} THEN <<>>
    ELSE RestOfLine(LexerOf(Self), <<peek_token>>)

\* The names of the identifiers among the tokens from..Len(Line) of the line
IdentsFrom(from) ==
    {Line[i].text : i \in {j \in from..Len(Line) : Line[j].kind = "Ident"}}

\* The identifiers the statement reads, if it is parsed to its end
ReadNames ==
    CASE cur_token.kind \in {"Print", "If", "While"} -> IdentsFrom(1)
      [] cur_token.kind = "Let" -> IdentsFrom(3)
      [] OTHER -> {}

\* What C2 says of a LET step: the name after LET is not declared and is
\* the first operand of the right-hand side
DeclaringLetReadsItself ==
    (/\ AtStatement
     /\ cur_token.kind = "Let"
     /\ Len(Line) >= 3
     /\ Line[1].kind = "Ident"
     /\ Line[1].text \notin symbols
     /\ Line[2].kind = "Eq"
     /\ Line[3] = Line[1])
    => panic' = Panic("UndeclaredVariable", Line[1].text)

\* C2: a statement LET x = <expression that reads x>, x named by no earlier
\* LET or INPUT, fails with UndeclaredVariable.
C2_ReadInDeclaringLet == [][DeclaringLetReadsItself]_vars

\* What C3 says of a statement step
ReadsAreDeclared ==
    AtStatement =>
        /\ panic'.kind = "UndeclaredVariable" =>
              /\ cur_token' = Token(panic'.text, "Ident")
              /\ panic'.text \notin symbols'
              /\ panic'.text \in ReadNames
        /\ panic' = NoPanic => ReadNames \subseteq symbols'
        /\ symbols \subseteq symbols'
        /\ (panic' = NoPanic /\ cur_token.kind \in {"Let", "Input"}) =>
              peek_token.text \in symbols'

\* C3: an identifier that reaches primary and is not in the symbol table
\* fails the compilation with UndeclaredVariable naming it, so a statement
\* is parsed to its end only if every identifier it reads is in the table;
\* a name that an earlier LET or INPUT put there stays there and is never
\* rejected.
C3_ReadsAreDeclared == [][ReadsAreDeclared]_vars

\* PRINT a was rejected although another variable had been declared
C3_Witness ==
    /\ panic = Panic("UndeclaredVariable", <<"a">>)
    /\ symbols = {<<"b">>}

\* The labels that a GOTO names and no LABEL declares
MissingLabels == labels_gotoed \ labels_declared

\* C4: the label check at the end of program reports every undeclared
\* label: each name referenced and never declared is named by an
\* UndeclaredLabel error.
C4_EveryUndeclaredLabelReported ==
    panic.kind = "UndeclaredLabel" =>
        \A label \in MissingLabels : panic.text = label

\* What C5 says of a step
SecondLabelFails ==
    /\ (/\ AtStatement
        /\ cur_token.kind = "Label"
        /\ peek_token.kind = "Ident"
        /\ Ahead.panic = NoPanic
        /\ Ahead.token.kind = "Newline")
       => IF peek_token.text \in labels_declared
          THEN panic' = Panic("DuplicateLabel", peek_token.text)
          ELSE /\ panic'.kind # "DuplicateLabel"
               /\ panic' = NoPanic =>
                     labels_declared' = labels_declared \cup {peek_token.text}
    /\ panic'.kind = "DuplicateLabel" =>
          /\ AtStatement
          /\ cur_token.kind = "Label"
          /\ peek_token.text \in labels_declared
    /\ ~(AtStatement /\ cur_token.kind = "Label") =>
          labels_declared' = labels_declared

\* C5: a statement LABEL X fails with DuplicateLabel exactly when an earlier
\* LABEL X was parsed, whatever statements lie between the two: a parsed
\* LABEL X puts X in labels_declared, no other step changes that set, and
\* LABEL X on a member of it aborts; a first LABEL X never does.
C5_SecondLabelFails == [][SecondLabelFails]_vars

\* The second LABEL a was rejected after a GOTO a between the two
C5_Witness ==
    /\ panic = Panic("DuplicateLabel", <<"a">>)
    /\ labels_gotoed = {<<"a">>}

\* What C6 says of a step
UndeclaredLabelFails ==
    /\ (AtProgramEnd /\ MissingLabels # {}) =>
          /\ panic'.kind = "UndeclaredLabel"
          /\ panic'.text \in MissingLabels
          /\ pc' # "parsed"
    /\ ~(AtStatement /\ cur_token.kind = "Label") =>
          labels_declared' = labels_declared
    /\ (AtStatement /\ cur_token.kind = "GoTo" /\ panic' = NoPanic) =>
          labels_gotoed' = labels_gotoed \cup {peek_token.text}
    /\ labels_gotoed \subseteq labels_gotoed'

LabelsCheckedAtEnd ==
    /\ (AtStatement /\ cur_token.kind = "GoTo") =>
          /\ panic'.kind \in {"None", "ExpectedToken", "UnexpectedCharacter",
                              "IllegalCharacter"}
          /\ (/\ peek_token.kind = "Ident"
              /\ Ahead.panic = NoPanic
              /\ Ahead.token.kind = "Newline") => panic'.kind # "ExpectedToken"
    /\ (panic'.kind = "UndeclaredLabel" /\ panic = NoPanic) => AtProgramEnd
    /\ (AtProgramEnd /\ labels_gotoed \subseteq labels_declared) =>
          /\ panic' = NoPanic
          /\ pc' = "parsed"

\* C7: label existence is checked once, after the last statement: a GOTO
\* statement never fails over its target (it fails only if it is malformed
\* or a token cannot be lexed), UndeclaredLabel arises only in the step that
\* ends program(), and that step succeeds whenever every referenced label is
\* declared, whatever the order of GOTO and LABEL and whichever labels are
\* never referenced.
C7_LabelsCheckedAtEnd == [][LabelsCheckedAtEnd]_vars

\* A program whose GOTO comes before its LABEL, with a second label that no
\* GOTO names, has been compiled: the goto was emitted before any label
C7_Witness ==
    /\ pc = "done"
    /\ labels_gotoed # {}
    /\ labels_gotoed # labels_declared
    /\ \E i \in 1..Len(code) :
          /\ code[i] = "goto "
          /\ \A j \in 1..i : code[j] # ":"

\* C8: a failed compilation writes no output, also when it fails in the
\* label check after the closing fragments were appended; the output is
\* written once, after program() has returned, and is header then code.
C8_NoOutputOnFailure ==
    /\ panic # NoPanic => file = <<>>
    /\ pc # "done" => file = <<>>
    /\ pc = "done" => panic = NoPanic /\ file = <<header \o code>>

\* The label check failed after "return 0;" and "}" were appended
C8_Witness ==
    /\ panic.kind = "UndeclaredLabel"
    /\ Len(code) >= 4
    /\ SubSeq(code, Len(code) - 3, Len(code)) = <<"return 0;", "\n", "}", "\n">>
    /\ file = <<>>

\* The spellings of the comparison operators and of the operators of
\* expression and term
ComparisonOps == {<<"=", "=">>, <<"!", "=">>, <<"<">>, <<"<", "=">>, <<">">>, <<">", "=">>}

ArithmeticOps == {<<"+">>, <<"-">>, <<"*">>, <<"/">>}

\* The tokens of the condition of an IF or WHILE line: all but the last
Condition(line) == SubSeq(line, 1, Len(line) - 1)

\* The operators of the condition that are not of expression or term
Joiners(cond) ==
    SelectSeq([i \in 1..(Len(cond) \div 2) |-> cond[2 * i].text],
              LAMBDA t : t \notin ArithmeticOps)

\* The line is IF c THEN or WHILE c REPEAT, c being operands (numbers and
\* declared variables) with one operator between each two
ConditionLine(line, cond) ==
    /\ Len(line) >= 2
    /\ line[Len(line)].kind = (IF cur_token.kind = "If" THEN "Then" ELSE "Repeat")
    /\ Len(cond) % 2 = 1
    /\ \A i \in 1..Len(cond) :
          IF i % 2 = 1
          THEN \/ cond[i].kind = "Number"
               \/ cond[i].kind = "Ident" /\ cond[i].text \in symbols
          ELSE cond[i].text \in ComparisonOps \cup ArithmeticOps \cup {<<"=">>}

\* What C9 says of the step that parses a condition with these operators
ConditionVerdict(joiners) ==
    IF joiners = <<>> \/ joiners[1] = <<"=">>
    THEN panic'.kind = "MissingComparison"
    ELSE (\A i \in 1..Len(joiners) : joiners[i] \in ComparisonOps) =>
            /\ panic'.kind \notin {"MissingComparison", "ExpectedToken",
                                   "UnexpectedToken", "UndeclaredVariable"}
            /\ panic' = NoPanic => blocks' = Append(blocks, cur_token.kind)

\* What C9 says of an IF or WHILE step on this line
ConditionStep(line) ==
    ConditionLine(line, Condition(line)) => ConditionVerdict(Joiners(Condition(line)))

\* What C9 says of a step
ComparisonNeedsOperator ==
    (AtStatement /\ cur_token.kind \in {"If", "While"}) => ConditionStep(Line)

\* C9: comparison needs a comparison operator between two expressions: a
\* condition that is one expression, or whose expressions are joined by `=`,
\* fails with MissingComparison; a condition expression (op expression)+
\* with declared operands, op any of == != < <= > >=, is accepted.
C9_ComparisonNeedsOperator == [][ComparisonNeedsOperator]_vars

\* A condition whose two expressions are joined by `=` was rejected
C9_Witness ==
    /\ panic.kind = "MissingComparison"
    /\ cur_token = Token(<<"=">>, "Eq")

----------------------------------------------------------------------------
(* Properties of the emission buffers and of the output, checked under     *)
(* Spec.                                                                   *)

\* s is the beginning of t
IsPrefix(s, t) == Len(s) <= Len(t) /\ SubSeq(t, 1, Len(s)) = s

\* The piece that starts a declaration in the preamble
DeclPiece == "float "

\* The positions of the text t that hold the piece p
PositionsOf(t, p) == {i \in 1..Len(t) : t[i] = p}

\* What C14 says of a step
AppendOnly ==
    /\ IsPrefix(header, header')
    /\ IsPrefix(code, code')
    /\ file' # file =>
          /\ file = <<>>
          /\ header' = header
          /\ code' = code
          /\ file' = <<header \o code>>
          /\ \A i \in PositionsOf(file'[1], DeclPiece) : i <= Len(header)
          /\ Cardinality(PositionsOf(file'[1], DeclPiece)) = Cardinality(symbols)

\* C14: the emission buffers are append-only and the output is the preamble
\* followed by the body: every step leaves what header and code held as the
\* beginning of what they hold after it, the text written is header then
\* code, and so each declaration of a variable, wherever its LET or INPUT
\* stands in the program, comes before every statement of the body.
C14_AppendOnlyOutput == [][AppendOnly]_vars

\* A program whose first statement is a PRINT and which declares two
\* variables after it has been written
C14_Witness ==
    /\ pc = "done"
    /\ symbols = {<<"a">>, <<"b">>}
    /\ code[1] = "printf(\""
    /\ file = <<header \o code>>

\* The first position of h after i that holds the piece ";"
RECURSIVE DeclEnd(_, _)
DeclEnd(h, i) == IF i >= Len(h) \/ h[i + 1] = ";" THEN i + 1 ELSE DeclEnd(h, i + 1)

\* The name declared by the declaration that starts at position i of h
DeclName(h, i) == SubSeq(h, i + 1, DeclEnd(h, i) - 1)

\* The preamble h holds one declaration for each name of the set names
OneDeclarationEach(h, names) ==
    /\ \A i, j \in PositionsOf(h, DeclPiece) : DeclName(h, i) = DeclName(h, j) => i = j
    /\ {DeclName(h, i) : i \in PositionsOf(h, DeclPiece)} = names

\* What C15 says of a LET or INPUT step on the name: it is declared once
\* it has become the current token, which the call of next_token that
\* pulls the token after it precedes
DeclaresOnce(name) ==
    IF Ahead.panic # NoPanic \/ name \in symbols
    THEN header' = header /\ symbols' = symbols
    ELSE /\ header' = header \o <<DeclPiece>> \o name \o <<";", "\n">>
         /\ symbols' = symbols \cup {name}

DeclarationStep ==
    /\ (AtStatement /\ cur_token.kind \in {"Let", "Input"}) => DeclaresOnce(peek_token.text)
    /\ ~(AtStatement /\ cur_token.kind \in {"Let", "Input"}) =>
          /\ symbols' = symbols
          /\ pc # "program" => header' = header
    /\ OneDeclarationEach(header', symbols')

\* C15: LET or INPUT on a name that is not in the symbol table adds it and
\* appends one declaration to the preamble, LET or INPUT on a declared name
\* appends none, and no other statement touches either: the preamble holds
\* exactly one declaration per name of the symbol table, in the order in
\* which the names were first met.
C15_OneDeclarationPerName == [][DeclarationStep]_vars

\* A program that assigns a twice and reads b once has been compiled
C15_Witness ==
    /\ pc = "done"
    /\ symbols = {<<"a">>, <<"b">>}
    /\ Cardinality(PositionsOf(code, " = ")) >= 2
    /\ Cardinality(PositionsOf(header, DeclPiece)) = 2

----------------------------------------------------------------------------
(* Properties of the symbol table and the label sets, checked under Spec.  *)

\* The sets that the step of a statement of this kind may change
MayChange(kind) ==
    CASE kind \in {"Let", "Input"} -> {"symbols"}
      [] kind = "Label" -> {"labels_declared"}
      [] kind = "GoTo" -> {"labels_gotoed"}
      [] OTHER -> {}

\* The sets that the step changes
Changed ==
    {n \in {"symbols"} : symbols' # symbols}
    \cup {n \in {"labels_declared"} : labels_declared' # labels_declared}
    \cup {n \in {"labels_gotoed"} : labels_gotoed' # labels_gotoed}

\* What C16 says of a step
SetsGrow ==
    /\ symbols \subseteq symbols'
    /\ labels_declared \subseteq labels_declared'
    /\ labels_gotoed \subseteq labels_gotoed'
    /\ Changed \subseteq (IF AtStatement THEN MayChange(cur_token.kind) ELSE {})

\* C16: the symbol table and the two label sets only grow: across every
\* step each is a superset of what it was; a LET or INPUT statement changes
\* the symbol table only, LABEL labels_declared only, GOTO labels_gotoed
\* only, and PRINT, IF, WHILE, the end of a block and the steps of program()
\* change none of the three.
C16_SetsGrow == [][SetsGrow]_vars

\* A program that declares a variable and a label and has a GOTO has been
\* compiled
C16_Witness ==
    /\ pc = "done"
    /\ symbols # {}
    /\ labels_declared # {}
    /\ labels_gotoed # {}

----------------------------------------------------------------------------
(* Properties of two runs on the same text, checked under SpecTwice.       *)

----------------------------------------------------------------------------
(* Properties of the newline appended by Lexer::new, checked under         *)
(* SpecNewline.                                                            *)

\* C18: Lexer::new appends one newline to every text, also to one that
\* ends in a newline, so the run on a text and the run on that text with
\* one more newline end the same way, with the same panic or the same
\* output; the source the lexer reads ends in a newline, and the token
\* before the first Eof is a Newline, so a last statement that no newline
\* ends is accepted.
C18_NewlineAppended ==
    /\ source # <<>>
    /\ source[Len(source)] = "\n"
    /\ (runs # <<>> /\ pc = "main" /\ cur_pos = 0) =>
          /\ Len(source) >= 2
          /\ source[Len(source) - 1] = "\n"
    /\ (peek_token.kind = "Eof" /\ cur_token.kind # "Eof") => cur_token.kind = "Newline"
    /\ (runs # <<>> /\ Ended) =>
          /\ panic = runs[1].panic
          /\ file = runs[1].file

\* A text whose last statement no newline ends has been compiled as given
\* and with one more newline, to the same output
C18_Witness ==
    /\ runs # <<>>
    /\ pc = "done"
    /\ Len(source) >= 3
    /\ source[Len(source) - 2] # "\n"
    /\ code[1] = "printf(\""
    /\ file = runs[1].file

----------------------------------------------------------------------------
(* Termination of a run, checked under SpecNewline on the steps of a run.  *)

\* How far main has come
Rank(p) ==
    CASE p = "main" -> 0
      [] p = "program" -> 1
      [] p = "statements" -> 2
      [] p = "parsed" -> 3
      [] p = "done" -> 4

\* What C19 says of a step of a run: it is taken before the run has ended;
\* no loop of the lexer runs past the end of the source; if it does not
\* abort it either takes main further or is an iteration of a statement
\* loop that moves the lexer forward; the body of a block at Eof aborts
Progress ==
    /\ ~Ended
    /\ panic'.kind # "Hang"
    /\ cur_pos' <= Len(source) + 2
    /\ panic' = NoPanic =>
          \/ Rank(pc') > Rank(pc)
          \/ pc' = pc /\ pc = "statements" /\ cur_pos' > cur_pos
    /\ (pc = "statements" /\ blocks # <<>> /\ cur_token.kind = "Eof") =>
          /\ panic' = Panic("InvalidStatement", cur_token.text)
          /\ blocks' = blocks

\* C19: every compilation terminates, with success or with one abort: no
\* step follows an abort or the file write; a step that does not abort
\* takes main further or, in a statement loop, moves the read position
\* forward, which never passes the end of the source by more than the two
\* tokens of lookahead; the body of an IF or WHILE that reaches Eof aborts;
\* and the loops that skip a comment and scan a string literal stop at the
\* newline that ends the source.
C19_RunsTerminate == [][runs' = runs => Progress]_vars

\* The body of a block reached Eof and the run was aborted there
C19_Witness ==
    /\ panic.kind = "InvalidStatement"
    /\ cur_token.kind = "Eof"
    /\ blocks # <<>>

----------------------------------------------------------------------------
(* Properties of the blocks and of the braces emitted, checked under Spec. *)

\* The fragments that open a brace and the one that closes it
OpenerPieces == {"int main(void){", "){", ")) {"}

CloserPiece == "}"

\* The open blocks after one more piece: the pieces that start main, an
\* IF, a WHILE and the guard of an INPUT open a block, a closing brace
\* closes the innermost one; Unmatched when there is none to close
Shift(open, piece) ==
    CASE piece = "int main(void){" -> Append(open, "Main")
      [] piece = "if(" -> Append(open, "If")
      [] piece = "while(" -> Append(open, "While")
      [] piece = "if(0 == scanf(\"%f\", &" -> Append(open, "Input")
      [] piece = CloserPiece ->
            IF open = <<>> \/ open = <<"Unmatched">> THEN <<"Unmatched">>
            ELSE SubSeq(open, 1, Len(open) - 1)
      [] OTHER -> open

\* The open blocks after the pieces i.. of the text t, from those in open
RECURSIVE OpenFrom(_, _, _)
OpenFrom(t, i, open) ==
    IF i > Len(t) THEN open ELSE OpenFrom(t, i + 1, Shift(open, t[i]))

OpenBlocks(t) == OpenFrom(t, 1, <<>>)

\* The text t has as many opening as closing braces, each closing brace
\* after the opening one it matches
Balanced(t) ==
    /\ OpenBlocks(t) = <<>>
    /\ Cardinality({i \in 1..Len(t) : t[i] \in OpenerPieces})
          = Cardinality(PositionsOf(t, CloserPiece))

\* What C20 says of the step on an ENDIF or ENDWHILE token, open being the
\* blocks that the text emitted so far has opened
EndOfBlock(open) ==
    IF open[Len(open)] = (IF cur_token.kind = "EndIf" THEN "If" ELSE "While")
    THEN /\ panic'.kind # "InvalidStatement"
         /\ panic' = NoPanic =>
               OpenBlocks(header' \o code') = SubSeq(open, 1, Len(open) - 1)
    ELSE /\ panic' = Panic("InvalidStatement", cur_token.text)
         /\ code' = code

\* What C20 says of the step at the end of input
EndOfInput(open) == open # <<"Main">> => panic'.kind = "InvalidStatement"

BlocksNest ==
    /\ (pc = "statements" /\ Running /\ cur_token.kind \in {"EndIf", "EndWhile"}) =>
          EndOfBlock(OpenBlocks(header \o code))
    /\ (pc = "statements" /\ Running /\ cur_token.kind = "Eof") =>
          EndOfInput(OpenBlocks(header \o code))
    /\ pc' = "parsed" => Balanced(header' \o code')
    /\ file' # file => Balanced(file'[1])

\* C20: blocks are properly nested and the braces balance: ENDIF closes the
\* innermost open block if it is an IF and ENDWHILE if it is a WHILE, and
\* fails the compilation otherwise, as does a block that is open at the end
\* of input; a block may have no statement; the text of a successful
\* compilation has as many opening fragments (of main, IF, WHILE and the
\* guard of INPUT) as closing braces, each closing brace after the opening
\* fragment it matches.
C20_BlocksNest == [][BlocksNest]_vars

\* A program with an empty IF block inside a WHILE block has been written
C20_Witness ==
    /\ pc = "done"
    /\ \E i \in 1..Len(code) :
          /\ code[i] = "while("
          /\ \E j \in (i + 1)..(Len(code) - 3) :
                /\ code[j] = "if("
                /\ \A k \in i..j : code[k] # CloserPiece
                /\ \E k \in j..(Len(code) - 3) :
                      SubSeq(code, k, k + 3) = <<"){", "\n", "}", "\n">>

====
